---- MODULE Spec2Model ----
(***************************************************************************)
(* A model of nettlesoup: the TFTP message codec (src/src/msg.rs) and the  *)
(* per-exchange Connection record (src/src/conn.rs).                       *)
(*                                                                         *)
(* Byte buffers (Vec<u8>) are sequences of numbers 0..255.  A Rust String  *)
(* is a sequence of code points; String::bytes() is its UTF-8 encoding and *)
(* `b as char` is the code point whose number is the byte b.  Indexing a   *)
(* Vec at or past its length panics; a decoder's outcome is therefore Ok,  *)
(* Err or Panic.                                                           *)
(***************************************************************************)
EXTENDS Integers, Sequences, FiniteSets, TLC

VARIABLES msg, bytes, res, conn, calls, last_arg, conn_status, overflow_checks,
          new_args, ret

codec_vars == <<msg, bytes, res>>
conn_vars ==
    <<conn, calls, last_arg, conn_status, overflow_checks, new_args, ret>>
vars ==
    <<msg, bytes, res, conn, calls, last_arg, conn_status, overflow_checks,
      new_args, ret>>

(***************************************************************************)
(* Bounds of the model.                                                    *)
(***************************************************************************)
MaxTail == 4
MaxText == 2
MaxPayload == 2
MaxCalls == 65538

(***************************************************************************)
(* Program constants.                                                      *)
(***************************************************************************)
RequestMinLen == 5
DataMinLen == 5
DataMaxLen == 516
AckLen == 4
ErrorMinLen == 5
U16Modulus == 65536

(***************************************************************************)
(* Rust primitives.                                                        *)
(***************************************************************************)
\* bytes[i] with Rust's 0-based index (the caller has checked i < len,
\* otherwise the access is modelled as a panic at the call site).
At(v, i) == v[i + 1]

\* u16::to_be_bytes
to_be_bytes(x) == <<x \div 256, x % 256>>

\* ((hi as u16) << 8) | lo as u16
be_u16(hi, lo) == hi * 256 + lo

\* char::encode_utf8 as String::bytes() yields it, for one code point.
Utf8Char(cp) ==
    IF cp < 128 THEN <<cp>>
    ELSE IF cp < 2048 THEN <<192 + (cp \div 64), 128 + (cp % 64)>>
    ELSE IF cp < 65536
        THEN <<224 + (cp \div 4096), 128 + ((cp \div 64) % 64), 128 + (cp % 64)>>
    ELSE <<240 + (cp \div 262144), 128 + ((cp \div 4096) % 64),
           128 + ((cp \div 64) % 64), 128 + (cp % 64)>>

\* String::bytes(): the UTF-8 bytes of every char in order.
RECURSIVE StringBytes(_)
StringBytes(s) ==
    IF s = <<>> THEN <<>> ELSE Utf8Char(Head(s)) \o StringBytes(Tail(s))

\* String::pop(): drops the last char, nothing on an empty string.
StringPop(s) == IF s = <<>> THEN s ELSE SubSeq(s, 1, Len(s) - 1)

Ok(m) == [kind |-> "Ok", msg |-> m]
Err(e) == [kind |-> "Err", err |-> e]
Panic == [kind |-> "Panic"]

(***************************************************************************)
(* MessageType, ReadWriteRequestMessageMode, ParseError.                   *)
(***************************************************************************)
MessageType == {"ReadRequest", "WriteRequest", "Data", "Acknowledgement", "Error"}

MessageType_to_opcode(msg_type) ==
    CASE msg_type = "ReadRequest" -> 1
      [] msg_type = "WriteRequest" -> 2
      [] msg_type = "Data" -> 3
      [] msg_type = "Acknowledgement" -> 4
      [] msg_type = "Error" -> 5

MessageType_from_opcode(opcode) ==
    CASE opcode = 1 -> "ReadRequest"
      [] opcode = 2 -> "WriteRequest"
      [] opcode = 3 -> "Data"
      [] opcode = 4 -> "Acknowledgement"
      [] opcode = 5 -> "Error"
      [] OTHER -> "None"

ReadWriteRequestMessageMode == {"NetAscii", "Octet", "Mail"}

str_netascii == <<110, 101, 116, 97, 115, 99, 105, 105>>
str_NETASCII == <<78, 69, 84, 65, 83, 67, 73, 73>>
str_NetAscii == <<78, 101, 116, 65, 115, 99, 105, 105>>
str_octet == <<111, 99, 116, 101, 116>>
str_OCTET == <<79, 67, 84, 69, 84>>
str_Octet == <<79, 99, 116, 101, 116>>
str_mail == <<109, 97, 105, 108>>
str_MAIL == <<77, 65, 73, 76>>
str_Mail == <<77, 97, 105, 108>>

Mode_to_string(mode) ==
    CASE mode = "NetAscii" -> str_netascii
      [] mode = "Octet" -> str_octet
      [] mode = "Mail" -> str_mail

Mode_from_string(mode_string) ==
    CASE mode_string \in {str_netascii, str_NETASCII, str_NetAscii} -> "NetAscii"
      [] mode_string \in {str_octet, str_OCTET, str_Octet} -> "Octet"
      [] mode_string \in {str_mail, str_MAIL, str_Mail} -> "Mail"
      [] OTHER -> "None"

ParseError ==
    {"TooShort", "TooLong", "InvalidOpcode", "NoFilename", "InvalidFilename",
     "NoMode", "InvalidMode", "InvalidErrorCode", "NoErrorMessage",
     "InvalidErrorMessage"}

(***************************************************************************)
(* Constructors.                                                           *)
(***************************************************************************)
ReadRequestMessage_new(filename, mode) ==
    [msg_type |-> "ReadRequest", filename |-> filename, mode |-> mode]

WriteRequestMessage_new(filename, mode) ==
    [msg_type |-> "WriteRequest", filename |-> filename, mode |-> mode]

DataMessage_new(block_num, data) ==
    [msg_type |-> "Data", block_num |-> block_num, data |-> data]

AcknowledgementMessage_new(block_num) ==
    [msg_type |-> "Acknowledgement", block_num |-> block_num]

ErrorMessage_new(code, message) ==
    [msg_type |-> "Error", code |-> code, message |-> message]

(***************************************************************************)
(* Encoders.                                                               *)
(***************************************************************************)
ReadRequestMessage_to_bytes(m) ==
    to_be_bytes(MessageType_to_opcode(m.msg_type))
        \o StringBytes(m.filename) \o <<0>>
        \o StringBytes(Mode_to_string(m.mode))

WriteRequestMessage_to_bytes(m) ==
    to_be_bytes(MessageType_to_opcode(m.msg_type))
        \o StringBytes(m.filename) \o <<0>>
        \o StringBytes(Mode_to_string(m.mode))

DataMessage_to_bytes(m) ==
    to_be_bytes(MessageType_to_opcode(m.msg_type))
        \o to_be_bytes(m.block_num) \o m.data

AcknowledgementMessage_to_bytes(m) ==
    to_be_bytes(MessageType_to_opcode(m.msg_type)) \o to_be_bytes(m.block_num)

ErrorMessage_to_bytes(m) ==
    to_be_bytes(MessageType_to_opcode(m.msg_type))
        \o to_be_bytes(m.code) \o StringBytes(m.message) \o <<0>>

(***************************************************************************)
(* Decoders.  A scanning loop's outcome is how it was left: "done" (the    *)
(* while condition became false), "return" (its bounds check returned the  *)
(* error) or "panic" (bytes[c] with c >= bytes.len()).                     *)
(***************************************************************************)
LoopDone(c, curr_char, s) ==
    [exit |-> "done", c |-> c, curr_char |-> curr_char, s |-> s]

LoopReturn(c, curr_char, s) ==
    [exit |-> "return", c |-> c, curr_char |-> curr_char, s |-> s]

LoopPanic(c, curr_char, s) ==
    [exit |-> "panic", c |-> c, curr_char |-> curr_char, s |-> s]

\* while curr_char != '\0' { if c >= bytes.len() { return Err(..) }
\*     c += 1; curr_char = bytes[c] as char; string.push(curr_char); }
\* The same loop text scans the filename and the mode string of both request
\* decoders; what the bounds check returns is decided by the caller.
RECURSIVE RequestScanLoop(_, _, _, _)
RequestScanLoop(b, c, curr_char, string) ==
    IF curr_char = 0 THEN LoopDone(c, curr_char, string)
    ELSE IF c >= Len(b) THEN LoopReturn(c, curr_char, string)
    ELSE IF c + 1 >= Len(b) THEN LoopPanic(c + 1, curr_char, string)
    ELSE RequestScanLoop(b, c + 1, At(b, c + 1), Append(string, At(b, c + 1)))

\* Mutant of RequestBody: the two pop() calls that strip the terminators are
\* missing.
RequestBody_no_strip(b, msg_type) ==
    LET f == RequestScanLoop(b, 1, At(b, 1), <<>>)
    IN  IF f.exit = "return" THEN Err("InvalidFilename")
        ELSE IF f.exit = "panic" THEN Panic
        ELSE IF f.c >= Len(b) THEN Err("NoMode")
        ELSE
          LET curr_char == IF f.c + 1 < Len(b) THEN At(b, f.c + 1)
                           ELSE f.curr_char
              m == RequestScanLoop(b, f.c, curr_char, <<>>)
          IN  IF m.exit = "return"
                  THEN (IF m.s = <<>> THEN Err("NoMode") ELSE Err("InvalidMode"))
              ELSE IF m.exit = "panic" THEN Panic
              ELSE
                LET filename == f.s
                    mode_string == m.s
                    mode == Mode_from_string(mode_string)
                IN  IF filename = <<>> THEN Err("NoFilename")
                    ELSE IF mode_string = <<>> THEN Err("NoMode")
                    ELSE IF mode = "None" THEN Err("InvalidMode")
                    ELSE Ok([msg_type |-> msg_type, filename |-> filename,
                             mode |-> mode])

\* The part of a request decoder after the opcode checks (parse filename,
\* parse mode, strip, validate, construct); `new` is the variant's constructor
\* tag.
RequestBody(b, msg_type) ==
    LET f == RequestScanLoop(b, 1, At(b, 1), <<>>)
    IN  IF f.exit = "return" THEN Err("InvalidFilename")
        ELSE IF f.exit = "panic" THEN Panic
        ELSE IF f.c >= Len(b) THEN Err("NoMode")
        ELSE
          LET curr_char == IF f.c + 1 < Len(b) THEN At(b, f.c + 1)
                           ELSE f.curr_char
              m == RequestScanLoop(b, f.c, curr_char, <<>>)
          IN  IF m.exit = "return"
                  THEN (IF m.s = <<>> THEN Err("NoMode") ELSE Err("InvalidMode"))
              ELSE IF m.exit = "panic" THEN Panic
              ELSE
                LET filename == StringPop(f.s)
                    mode_string == StringPop(m.s)
                    mode == Mode_from_string(mode_string)
                IN  IF filename = <<>> THEN Err("NoFilename")
                    ELSE IF mode_string = <<>> THEN Err("NoMode")
                    ELSE IF mode = "None" THEN Err("InvalidMode")
                    ELSE Ok([msg_type |-> msg_type, filename |-> filename,
                             mode |-> mode])

ReadRequestMessage_from_bytes(b) ==
    IF Len(b) < RequestMinLen THEN Err("TooShort")
    ELSE LET opcode == be_u16(At(b, 0), At(b, 1))
             msg_type == MessageType_from_opcode(opcode)
         IN  IF msg_type = "None" THEN Err("InvalidOpcode")
             ELSE IF msg_type # "ReadRequest" THEN Err("InvalidOpcode")
             ELSE RequestBody(b, "ReadRequest")

WriteRequestMessage_from_bytes(b) ==
    IF Len(b) < RequestMinLen THEN Err("TooShort")
    ELSE LET opcode == be_u16(At(b, 0), At(b, 1))
             msg_type == MessageType_from_opcode(opcode)
         IN  IF msg_type = "None" THEN Err("InvalidOpcode")
             ELSE IF msg_type # "WriteRequest" THEN Err("InvalidOpcode")
             ELSE RequestBody(b, "WriteRequest")

\* Mutant of DataMessage_from_bytes: the upper bounds check is off by one
\* (>= instead of >).
DataMessage_from_bytes_off_by_one(b) ==
    IF Len(b) < DataMinLen THEN Err("TooShort")
    ELSE IF Len(b) >= DataMaxLen THEN Err("TooLong")
    ELSE LET opcode == be_u16(At(b, 0), At(b, 1))
             msg_type == MessageType_from_opcode(opcode)
         IN  IF msg_type = "None" THEN Err("InvalidOpcode")
             ELSE IF msg_type # "Data" THEN Err("InvalidOpcode")
             ELSE LET block_num == be_u16(At(b, 2), At(b, 3))
                      data == SubSeq(b, 5, Len(b))
                  IN  Ok(DataMessage_new(block_num, data))

DataMessage_from_bytes(b) ==
    IF Len(b) < DataMinLen THEN Err("TooShort")
    ELSE IF Len(b) > DataMaxLen THEN Err("TooLong")
    ELSE LET opcode == be_u16(At(b, 0), At(b, 1))
             msg_type == MessageType_from_opcode(opcode)
         IN  IF msg_type = "None" THEN Err("InvalidOpcode")
             ELSE IF msg_type # "Data" THEN Err("InvalidOpcode")
             ELSE LET block_num == be_u16(At(b, 2), At(b, 3))
                      data == SubSeq(b, 5, Len(b))
                  IN  Ok(DataMessage_new(block_num, data))

\* Mutant of AcknowledgementMessage_from_bytes: the check that the opcode is
\* this variant's is missing (any mapped opcode is accepted).
AcknowledgementMessage_from_bytes_unmatched(b) ==
    IF Len(b) < AckLen THEN Err("TooShort")
    ELSE IF Len(b) > AckLen THEN Err("TooLong")
    ELSE LET opcode == be_u16(At(b, 0), At(b, 1))
             msg_type == MessageType_from_opcode(opcode)
         IN  IF msg_type = "None" THEN Err("InvalidOpcode")
             ELSE Ok(AcknowledgementMessage_new(be_u16(At(b, 2), At(b, 3))))

AcknowledgementMessage_from_bytes(b) ==
    IF Len(b) < AckLen THEN Err("TooShort")
    ELSE IF Len(b) > AckLen THEN Err("TooLong")
    ELSE LET opcode == be_u16(At(b, 0), At(b, 1))
             msg_type == MessageType_from_opcode(opcode)
         IN  IF msg_type = "None" THEN Err("InvalidOpcode")
             ELSE IF msg_type # "Acknowledgement" THEN Err("InvalidOpcode")
             ELSE Ok(AcknowledgementMessage_new(be_u16(At(b, 2), At(b, 3))))

\* while curr_char != '\0' { if c >= bytes.len() - 1 { return Err(..) }
\*     c += 1; curr_char = bytes[c] as char; error_msg.push(curr_char); }
RECURSIVE ErrorScanLoop(_, _, _, _)
ErrorScanLoop(b, c, curr_char, error_msg) ==
    IF curr_char = 0 THEN LoopDone(c, curr_char, error_msg)
    ELSE IF c >= Len(b) - 1 THEN LoopReturn(c, curr_char, error_msg)
    ELSE IF c + 1 >= Len(b) THEN LoopPanic(c + 1, curr_char, error_msg)
    ELSE ErrorScanLoop(b, c + 1, At(b, c + 1), Append(error_msg, At(b, c + 1)))

ErrorMessage_from_bytes(b) ==
    IF Len(b) < ErrorMinLen THEN Err("TooShort")
    ELSE LET opcode == be_u16(At(b, 0), At(b, 1))
             msg_type == MessageType_from_opcode(opcode)
         IN  IF msg_type = "None" THEN Err("InvalidOpcode")
             ELSE IF msg_type # "Error" THEN Err("InvalidOpcode")
             ELSE
               LET error_code == be_u16(At(b, 2), At(b, 3))
                   c == 3
                   curr_char == At(b, c)
               IN  IF c + 2 >= Len(b) THEN Err("NoErrorMessage")
                   ELSE
                     LET l == ErrorScanLoop(b, c, curr_char, <<>>)
                     IN  IF l.exit = "return" THEN Err("InvalidErrorMessage")
                         ELSE IF l.exit = "panic" THEN Panic
                         ELSE LET error_msg == StringPop(l.s)
                              IN  IF error_msg = <<>> THEN Err("NoErrorMessage")
                                  ELSE Ok(ErrorMessage_new(error_code, error_msg))

(***************************************************************************)
(* Connection (src/src/conn.rs).                                           *)
(***************************************************************************)
NoMsg == [msg_type |-> "None"]

\* Mutant of Connection_new: the two identifiers are stored in each other's
\* field.
Connection_new_swapped(local_tid, remote_tid) ==
    [local_tid |-> remote_tid, remote_tid |-> local_tid, curr_seq |-> 0,
     last_msg |-> NoMsg]

Connection_new(local_tid, remote_tid) ==
    [local_tid |-> local_tid, remote_tid |-> remote_tid, curr_seq |-> 0,
     last_msg |-> NoMsg]

Connection_local_tid(self) == self.local_tid

Connection_remote_tid(self) == self.remote_tid

Connection_curr_seq(self) == self.curr_seq

Connection_last_msg(self) == self.last_msg

\* self.last_msg = Some(message);
Connection_store(self, message) == [self EXCEPT !.last_msg = message]

\* self.curr_seq += 1 on a u16 that does not overflow, or that wraps in a
\* build without overflow checks.
Connection_increment(self) ==
    [self EXCEPT !.curr_seq = (self.curr_seq + 1) % U16Modulus]

\* Whether self.curr_seq += 1 overflows the u16.
Connection_overflows(self) == self.curr_seq + 1 >= U16Modulus

(***************************************************************************)
(* Inputs.                                                                 *)
(***************************************************************************)
RECURSIVE SeqsUpTo(_, _)
SeqsUpTo(S, n) ==
    IF n = 0 THEN {<<>>}
    ELSE LET shorter == SeqsUpTo(S, n - 1)
         IN  shorter \cup {Append(q, x) : q \in {r \in shorter : Len(r) = n - 1}, x \in S}

Zeros(n) == [i \in 1..n |-> 0]

test_txt == <<116, 101, 115, 116, 46, 116, 120, 116>>
str_Netascii == <<78, 101, 116, 97, 115, 99, 105, 105>>
str_oCTET == <<111, 67, 84, 69, 84>>
str_binary == <<98, 105, 110, 97, 114, 121>>

\* Bytes after the opcode of a raw buffer: the terminator, an ASCII letter and
\* a byte above 127.
TailBytes == {0, 97, 233}

OpcodePrefixes ==
    {<<0, 1>>, <<0, 2>>, <<0, 3>>, <<0, 4>>, <<0, 5>>, <<0, 9>>, <<1, 1>>, <<0, 0>>}

\* The acknowledgement of block 5, and the same with one byte too many.
AckScenarios == {<<0, 4, 0, 5>>, <<0, 4, 0, 5, 255>>}

ShortBuffers ==
    {<<>>, <<0>>, <<5>>} \cup AckScenarios
        \cup {p \o t : p \in OpcodePrefixes, t \in SeqsUpTo(TailBytes, MaxTail)}

ModeWords ==
    {str_netascii, str_NETASCII, str_NetAscii, str_Netascii,
     str_octet, str_OCTET, str_Octet, str_oCTET,
     str_mail, str_MAIL, str_Mail, str_binary}

WireNames == {<<97>>, <<97, 233>>, <<1, 127>>, test_txt}

\* [opcode][filename][0x00][mode word], with or without a terminator after it.
RequestWire(op, name, word, terminated) ==
    <<0, op>> \o name \o <<0>> \o word \o (IF terminated THEN <<0>> ELSE <<>>)

RequestBuffers ==
    {RequestWire(op, n, w, t) :
        op \in {1, 2}, n \in WireNames, w \in ModeWords, t \in BOOLEAN}

\* Buffers around the Data length limit (the body is zero bytes).
LongBuffers ==
    {p \o Zeros(l - 2) :
        p \in {<<0, 1>>, <<0, 3>>, <<0, 4>>, <<0, 5>>, <<0, 9>>},
        l \in (DataMaxLen - 1)..(DataMaxLen + 2)}

Buffers == ShortBuffers \cup RequestBuffers \cup LongBuffers

\* Chars of an in-memory text: NUL, an ASCII letter, a char above U+007F.
TextChars == {0, 97, 233}

\* A text of a three-byte and a four-byte char (U+20AC, U+1F600).
wide_text == <<8364, 128512>>

Texts == SeqsUpTo(TextChars, MaxText) \cup {test_txt, wide_text}

U16Samples == {0, 1, 5, 256, 258, 65535}

Payloads ==
    SeqsUpTo({0, 255}, MaxPayload)
        \cup {Zeros(l) : l \in (DataMaxLen - 5)..(DataMaxLen - 3)}

TIDs == {0, 65535}

\* The messages handed to add_msg.
AnyMessage == {AcknowledgementMessage_new(5), DataMessage_new(1, <<97>>)}

NoRes == [decoder |-> "None", out |-> [kind |-> "None"]]

(***************************************************************************)
(* The codec's operations.                                                 *)
(***************************************************************************)
\* Each encode action builds a message with the variant's constructor and
\* leaves its wire form in `bytes`; each decode action applies one variant's
\* from_bytes to `bytes` and leaves the outcome in `res`.
EncodeReadRequest ==
    /\ \E filename \in Texts, mode \in ReadWriteRequestMessageMode :
           /\ msg' = ReadRequestMessage_new(filename, mode)
           /\ bytes' = ReadRequestMessage_to_bytes(msg')
    /\ res' = NoRes
    /\ UNCHANGED conn_vars

EncodeWriteRequest ==
    /\ \E filename \in Texts, mode \in ReadWriteRequestMessageMode :
           /\ msg' = WriteRequestMessage_new(filename, mode)
           /\ bytes' = WriteRequestMessage_to_bytes(msg')
    /\ res' = NoRes
    /\ UNCHANGED conn_vars

EncodeData ==
    /\ \E block_num \in U16Samples, data \in Payloads :
           /\ msg' = DataMessage_new(block_num, data)
           /\ bytes' = DataMessage_to_bytes(msg')
    /\ res' = NoRes
    /\ UNCHANGED conn_vars

EncodeAcknowledgement ==
    /\ \E block_num \in U16Samples :
           /\ msg' = AcknowledgementMessage_new(block_num)
           /\ bytes' = AcknowledgementMessage_to_bytes(msg')
    /\ res' = NoRes
    /\ UNCHANGED conn_vars

EncodeError ==
    /\ \E code \in U16Samples, message \in Texts :
           /\ msg' = ErrorMessage_new(code, message)
           /\ bytes' = ErrorMessage_to_bytes(msg')
    /\ res' = NoRes
    /\ UNCHANGED conn_vars

DecodeReadRequest ==
    /\ res' = [decoder |-> "ReadRequest",
               out |-> ReadRequestMessage_from_bytes(bytes)]
    /\ UNCHANGED <<msg, bytes>>
    /\ UNCHANGED conn_vars

DecodeWriteRequest ==
    /\ res' = [decoder |-> "WriteRequest",
               out |-> WriteRequestMessage_from_bytes(bytes)]
    /\ UNCHANGED <<msg, bytes>>
    /\ UNCHANGED conn_vars

DecodeData ==
    /\ res' = [decoder |-> "Data", out |-> DataMessage_from_bytes(bytes)]
    /\ UNCHANGED <<msg, bytes>>
    /\ UNCHANGED conn_vars

DecodeAcknowledgement ==
    /\ res' = [decoder |-> "Acknowledgement",
               out |-> AcknowledgementMessage_from_bytes(bytes)]
    /\ UNCHANGED <<msg, bytes>>
    /\ UNCHANGED conn_vars

DecodeError ==
    /\ res' = [decoder |-> "Error", out |-> ErrorMessage_from_bytes(bytes)]
    /\ UNCHANGED <<msg, bytes>>
    /\ UNCHANGED conn_vars

\* No accessor has returned since the last add_msg.
NoRet == [fn |-> "None", val |-> 0]

(***************************************************************************)
(* The Connection's operations.                                            *)
(***************************************************************************)
\* add_msg: the store, then the increment.  With overflow checks (a debug
\* build) the increment of 65535 panics after the store; without them it
\* wraps to 0.
AddMsg ==
    /\ conn_status = "ok"
    /\ calls < MaxCalls
    /\ \E message \in AnyMessage :
        LET stored == Connection_store(conn, message)
        IN  /\ last_arg' = message
            /\ IF Connection_overflows(stored) /\ overflow_checks
                   THEN conn' = stored /\ conn_status' = "panicked"
                   ELSE conn' = Connection_increment(stored)
                        /\ conn_status' = "ok"
    /\ calls' = calls + 1
    /\ ret' = NoRet
    /\ UNCHANGED <<overflow_checks, new_args, msg, bytes, res>>

\* The accessors take &self: each returns a field's value (last_msg a clone
\* of it) and writes nothing.
LocalTid ==
    /\ ret' = [fn |-> "local_tid", val |-> Connection_local_tid(conn)]
    /\ UNCHANGED <<conn, calls, last_arg, conn_status, overflow_checks, new_args>>
    /\ UNCHANGED codec_vars

RemoteTid ==
    /\ ret' = [fn |-> "remote_tid", val |-> Connection_remote_tid(conn)]
    /\ UNCHANGED <<conn, calls, last_arg, conn_status, overflow_checks, new_args>>
    /\ UNCHANGED codec_vars

CurrSeq ==
    /\ ret' = [fn |-> "curr_seq", val |-> Connection_curr_seq(conn)]
    /\ UNCHANGED <<conn, calls, last_arg, conn_status, overflow_checks, new_args>>
    /\ UNCHANGED codec_vars

LastMsg ==
    /\ ret' = [fn |-> "last_msg", val |-> Connection_last_msg(conn)]
    /\ UNCHANGED <<conn, calls, last_arg, conn_status, overflow_checks, new_args>>
    /\ UNCHANGED codec_vars

(***************************************************************************)
(* Specifications.                                                         *)
(***************************************************************************)
CodecInit ==
    /\ msg = NoMsg
    /\ bytes \in Buffers
    /\ res = NoRes

CodecIdle ==
    /\ msg = NoMsg
    /\ bytes = <<>>
    /\ res = NoRes

ConnInit ==
    /\ new_args \in [local_tid : TIDs, remote_tid : TIDs]
    /\ conn = Connection_new(new_args.local_tid, new_args.remote_tid)
    /\ calls = 0
    /\ last_arg = NoMsg
    /\ conn_status = "ok"
    /\ overflow_checks \in BOOLEAN
    /\ ret = NoRet

ConnIdle ==
    /\ new_args = [local_tid |-> 0, remote_tid |-> 0]
    /\ conn = Connection_new(new_args.local_tid, new_args.remote_tid)
    /\ calls = 0
    /\ last_arg = NoMsg
    /\ conn_status = "ok"
    /\ overflow_checks = TRUE
    /\ ret = NoRet

Init == CodecInit /\ ConnIdle

Next ==
    \/ EncodeReadRequest
    \/ EncodeWriteRequest
    \/ EncodeData
    \/ EncodeAcknowledgement
    \/ EncodeError
    \/ DecodeReadRequest
    \/ DecodeWriteRequest
    \/ DecodeData
    \/ DecodeAcknowledgement
    \/ DecodeError

Spec == Init /\ [][Next]_vars

InitConn == CodecIdle /\ ConnInit

NextConn ==
    \/ AddMsg
    \/ LocalTid
    \/ RemoteTid
    \/ CurrSeq
    \/ LastMsg

SpecConn == InitConn /\ [][NextConn]_vars

(***************************************************************************)
(* Vocabulary of the claims.                                               *)
(***************************************************************************)
Decoded == res.decoder # "None"

Requests == {"ReadRequest", "WriteRequest"}

\* A non-empty text with no NUL char.
WellFormedText(s) == s # <<>> /\ \A i \in 1..Len(s) : s[i] # 0

\* The first two bytes of a buffer read big-endian.
WirePrefix(b) == be_u16(At(b, 0), At(b, 1))

\* No null byte at or after offset 2.
Unterminated(b) == \A i \in 3..Len(b) : b[i] # 0

\* ASCII lowercase of a word.
Lower(w) == [i \in 1..Len(w) |-> IF w[i] \in 65..90 THEN w[i] + 32 ELSE w[i]]

\* The buffer passes the length check of the decoder.
LengthAccepted(decoder, b) ==
    CASE decoder \in {"ReadRequest", "WriteRequest", "Error"} -> Len(b) >= 5
      [] decoder = "Data" -> Len(b) \in 5..516
      [] decoder = "Acknowledgement" -> Len(b) = 4

(***************************************************************************)
(* C1.  Every decoder, on every buffer, returns a message or one of the    *)
(* ten ParseError values; none crashes or indexes past the buffer's end.   *)
(* Fails: the request decoders index bytes[len] on a buffer whose filename *)
(* or mode string has no terminator.                                       *)
(***************************************************************************)
C1_DecodersNeverCrash ==
    Decoded =>
        \/ res.out.kind = "Ok"
        \/ res.out.kind = "Err" /\ res.out.err \in ParseError

(***************************************************************************)
(* C2.  Round trip of requests: decoding the encoding of a ReadRequest or  *)
(* WriteRequest with a non-empty, NUL-free filename gives the message      *)
(* back; decoding 00 01 "test.txt" 00 "octet" gives ReadRequest{test.txt,  *)
(* Octet}.  Fails: the encoding ends without a terminator and the decoder  *)
(* scans past the end.                                                     *)
(***************************************************************************)
C2_RequestRoundTrip ==
    /\ (/\ msg.msg_type \in Requests
        /\ WellFormedText(msg.filename)
        /\ res.decoder = msg.msg_type) => res.out = Ok(msg)
    /\ (/\ bytes = RequestWire(1, test_txt, str_octet, FALSE)
        /\ res.decoder = "ReadRequest")
           => res.out = Ok(ReadRequestMessage_new(test_txt, "Octet"))

(***************************************************************************)
(* C3.  Round trip of Error messages for every code and every non-empty,   *)
(* NUL-free text.  Fails: the scan starts at the low byte of the code, so  *)
(* a code whose low byte is 0 decodes to NoErrorMessage.                   *)
(***************************************************************************)
C3_ErrorRoundTrip ==
    (/\ msg.msg_type = "Error"
     /\ WellFormedText(msg.message)
     /\ res.decoder = "Error") => res.out = Ok(msg)

(***************************************************************************)
(* C4.  Round trip of Data messages with a payload of 0 to 512 bytes, the  *)
(* empty payload included.  Fails: the 4-byte encoding of an empty payload *)
(* is rejected as TooShort.                                                *)
(***************************************************************************)
C4_DataRoundTrip ==
    (/\ msg.msg_type = "Data"
     /\ Len(msg.data) <= 512
     /\ res.decoder = "Data") => res.out = Ok(msg)

(***************************************************************************)
(* C5.  String termination: the ReadRequest decoder, on a buffer of length *)
(* >= 5 with opcode 00 01 and no null byte after it, returns the error     *)
(* InvalidFilename or NoMode.  Fails: it panics.                           *)
(***************************************************************************)
C5_StringTermination ==
    (/\ res.decoder = "ReadRequest"
     /\ Len(bytes) >= 5
     /\ WirePrefix(bytes) = 1
     /\ Unterminated(bytes))
        => /\ res.out.kind = "Err"
           /\ res.out.err \in {"InvalidFilename", "NoMode"}

(***************************************************************************)
(* C6.  Opcode fidelity, as claimed: a decoder succeeds only on a buffer   *)
(* whose first two bytes are its variant's opcode, and every buffer with   *)
(* any other 2-byte prefix yields InvalidOpcode.  Fails on a buffer that   *)
(* the length check rejects first (00 09 is TooShort).                     *)
(***************************************************************************)
C6_OpcodeFidelityAnyLength ==
    (Decoded /\ Len(bytes) >= 2) =>
        /\ res.out.kind = "Ok"
              => WirePrefix(bytes) = MessageType_to_opcode(res.decoder)
        /\ WirePrefix(bytes) # MessageType_to_opcode(res.decoder)
              => res.out = Err("InvalidOpcode")

(***************************************************************************)
(* C6, amended.  A decoder succeeds only on a buffer whose first two bytes *)
(* are its variant's opcode, and every buffer that passes the decoder's    *)
(* length check (>= 5 for requests and Error, 5..516 for Data, exactly 4   *)
(* for Acknowledgement) with any other 2-byte prefix yields InvalidOpcode. *)
(***************************************************************************)
C6_OpcodeFidelity ==
    Decoded =>
        /\ res.out.kind = "Ok"
              => /\ Len(bytes) >= 2
                 /\ WirePrefix(bytes) = MessageType_to_opcode(res.decoder)
        /\ (/\ LengthAccepted(res.decoder, bytes)
            /\ WirePrefix(bytes) # MessageType_to_opcode(res.decoder))
              => res.out = Err("InvalidOpcode")

\* The Acknowledgement decoder has refused a 4-byte buffer that carries the
\* Data opcode.
C6_Witness ==
    /\ res.decoder = "Acknowledgement"
    /\ Len(bytes) = 4
    /\ WirePrefix(bytes) = 3
    /\ res.out = Err("InvalidOpcode")

(***************************************************************************)
(* C7.  Length boundaries: the Data decoder accepts every buffer with the  *)
(* Data opcode of length 5..516, returns TooShort for length 4 and TooLong *)
(* for length 517; the Acknowledgement decoder accepts a buffer with its   *)
(* opcode only at length 4, returns TooShort for length <= 3 and TooLong   *)
(* for length >= 5 (00 04 00 05 FF is TooLong).                            *)
(***************************************************************************)
C7_LengthBoundaries ==
    /\ res.decoder = "Data" =>
          /\ Len(bytes) = 4 => res.out = Err("TooShort")
          /\ Len(bytes) = 517 => res.out = Err("TooLong")
          /\ (Len(bytes) \in 5..516 /\ WirePrefix(bytes) = 3)
                => res.out.kind = "Ok"
    /\ res.decoder = "Acknowledgement" =>
          /\ Len(bytes) <= 3 => res.out = Err("TooShort")
          /\ Len(bytes) >= 5 => res.out = Err("TooLong")
          /\ res.out.kind = "Ok" => Len(bytes) = 4
          /\ (Len(bytes) = 4 /\ WirePrefix(bytes) = 4) => res.out.kind = "Ok"
          /\ bytes = <<0, 4, 0, 5, 255>> => res.out = Err("TooLong")

\* The Data decoder has accepted a buffer of the largest length, 516.
C7_Witness ==
    /\ res.decoder = "Data"
    /\ Len(bytes) = 516
    /\ WirePrefix(bytes) = 3
    /\ res.out.kind = "Ok"

(***************************************************************************)
(* C8.  Mode canonicalization: a mode always encodes to its lowercase      *)
(* word, and a request decoder maps the mode text case-insensitively: a    *)
(* word that is netascii, octet or mail in any case yields that mode, any  *)
(* other word yields InvalidMode.  Fails: only nine spellings are matched, *)
(* so "oCTET" and "Netascii" yield InvalidMode.                            *)
(***************************************************************************)
C8_ModeCanonicalization ==
    /\ (msg.msg_type \in Requests /\ res = NoRes)
          => bytes = RequestWire(MessageType_to_opcode(msg.msg_type),
                                 StringBytes(msg.filename),
                                 Lower(Mode_to_string(msg.mode)), FALSE)
    /\ \A decoder \in Requests, name \in WireNames, word \in ModeWords :
          (/\ res.decoder = decoder
           /\ bytes = RequestWire(MessageType_to_opcode(decoder), name, word, TRUE))
             => IF \E mode \in ReadWriteRequestMessageMode :
                      Lower(word) = Mode_to_string(mode)
                THEN /\ res.out.kind = "Ok"
                     /\ Mode_to_string(res.out.msg.mode) = Lower(word)
                ELSE res.out = Err("InvalidMode")

(***************************************************************************)
(* C9.  Sequence monotonicity: a new Connection has curr_seq 0 and no      *)
(* last_msg, and after N calls of add_msg, for every N, curr_seq is N and  *)
(* last_msg is the message of the Nth call.  Fails at N = 65536: the u16   *)
(* counter cannot hold it (see C10).                                       *)
(***************************************************************************)
C9_SequenceMonotonicity ==
    /\ calls = 0 => Connection_last_msg(conn) = NoMsg
    /\ Connection_curr_seq(conn) = calls
    /\ calls > 0 => Connection_last_msg(conn) = last_arg

(***************************************************************************)
(* C10.  add_msg never fails: from every value 0..65535 of curr_seq, a     *)
(* call completes and leaves curr_seq one greater.  Fails at 65535: the    *)
(* increment panics with overflow checks and wraps to 0 without them.      *)
(***************************************************************************)
C10_AddMsgNeverFails ==
    [][calls' = calls + 1
          => /\ conn_status' = "ok"
             /\ Connection_curr_seq(conn') = Connection_curr_seq(conn) + 1]_vars

(***************************************************************************)
(* C11.  add_msg has no effect on the identifiers: for every pair given to *)
(* new (0 included), the fields local_tid and remote_tid hold exactly      *)
(* those values after construction and after any sequence of add_msg       *)
(* calls, the accessors local_tid and remote_tid return them, and a call   *)
(* of any of the four accessors changes no field.                          *)
(***************************************************************************)
C11_IdentifiersUnaffected ==
    /\ [](/\ Connection_local_tid(conn) = new_args.local_tid
          /\ Connection_remote_tid(conn) = new_args.remote_tid
          /\ ret.fn = "local_tid" => ret.val = new_args.local_tid
          /\ ret.fn = "remote_tid" => ret.val = new_args.remote_tid)
    /\ [][(ret' # NoRet /\ calls' = calls) => conn' = conn]_vars

\* remote_tid has returned 0, the value given to new, on a Connection built
\* with local identifier 65535 after at least two add_msg calls.
C11_Witness ==
    /\ calls >= 2
    /\ new_args = [local_tid |-> 65535, remote_tid |-> 0]
    /\ ret = [fn |-> "remote_tid", val |-> 0]
    /\ Connection_last_msg(conn) # NoMsg

(***************************************************************************)
(* C12.  Error decode classifies a bad message string: on a buffer of      *)
(* length >= 5 with the Error opcode whose bytes after the code start with *)
(* a non-null byte and hold no null byte up to the end, it returns         *)
(* InvalidErrorMessage or TooShort; it returns NoErrorMessage only when    *)
(* the byte at offset 4 is the terminator.  Fails: 00 05 00 01 61 is       *)
(* NoErrorMessage, and so is every buffer whose code has a low byte of 0.  *)
(***************************************************************************)
C12_ErrorStringClassification ==
    (/\ res.decoder = "Error"
     /\ Len(bytes) >= 5
     /\ WirePrefix(bytes) = 5)
        => /\ (\A i \in 5..Len(bytes) : bytes[i] # 0)
                 => res.out \in {Err("InvalidErrorMessage"), Err("TooShort")}
           /\ res.out = Err("NoErrorMessage") => At(bytes, 4) = 0

(***************************************************************************)
(* C13.  A request whose mode string is null-terminated is accepted: on    *)
(* [opcode][filename][0x00][mode word][0x00] with opcode 1 (resp. 2), a    *)
(* non-empty filename of bytes in 1..127 and a mode word in one of the     *)
(* accepted spellings, the ReadRequest (resp. WriteRequest) decoder        *)
(* returns the message with exactly that filename and the word's mode.     *)
(***************************************************************************)
AcceptedSpellings ==
    {str_netascii, str_NETASCII, str_NetAscii, str_octet, str_OCTET,
     str_Octet, str_mail, str_MAIL, str_Mail}

AsciiNames ==
    {name \in WireNames :
        name # <<>> /\ \A i \in 1..Len(name) : name[i] \in 1..127}

\* The mode whose lowercase word the spelling is, whatever its case.
ModeOfSpelling(word) ==
    CHOOSE mode \in ReadWriteRequestMessageMode :
        Mode_to_string(mode) = Lower(word)

C13_TerminatedModeAccepted ==
    \A decoder \in Requests, name \in AsciiNames, word \in AcceptedSpellings :
        (/\ res.decoder = decoder
         /\ bytes = RequestWire(MessageType_to_opcode(decoder), name, word, TRUE))
           => res.out = Ok([msg_type |-> decoder, filename |-> name,
                            mode |-> ModeOfSpelling(word)])

\* The WriteRequest decoder has accepted 00 02 "test.txt" 00 "NetAscii" 00.
C13_Witness ==
    /\ res.decoder = "WriteRequest"
    /\ bytes = RequestWire(2, test_txt, str_NetAscii, TRUE)
    /\ res.out.kind = "Ok"
    /\ res.out.msg.filename = test_txt
    /\ res.out.msg.mode = "NetAscii"

====
